---- MODULE Spec2Model ----
(***************************************************************************)
(* Participant / key-issuance subsystem of generador_certificados          *)
(* (src/main.py): the SQLite store (tables lotes and participantes), the   *)
(* key generator generar_clave_unica, the import handler                   *)
(* subir_participantes and the dispatch handler enviar_correos.            *)
(*                                                                         *)
(* The store is a SQLite file: a connection's writes stay in its own       *)
(* transaction until commit, other connections read committed data only,   *)
(* and at most one connection holds the write lock at a time.  Several     *)
(* worker processes may serve imports at the same time; each handler is    *)
(* split at its statements that touch the store or the SMTP server.        *)
(***************************************************************************)
EXTENDS Integers, Sequences, FiniteSets, TLC

\* ---------------------------------------------------------------- bounds
NumKeys == 3        \* size of the key space (36^8 in the program)
MaxRows == 3        \* longest spreadsheet
MaxImports == 2     \* imports that get as far as reading their spreadsheet

Procs == {1, 2}     \* workers serving /subir-participantes
Claves == 1..NumKeys
NaN == "NaN"        \* an empty spreadsheet cell (pandas NaN, bound as SQL NULL)
NoLote == 0

\* Spreadsheet row i: complete, without name, or without address.  The address
\* of row i is "a"+i (the rows of one sheet carry distinct addresses).
Correo(i) == IF i = 1 THEN "a1" ELSE IF i = 2 THEN "a2" ELSE IF i = 3 THEN "a3"
             ELSE IF i = 4 THEN "a4" ELSE "a5"

Completa(i) == [nombre |-> "n", correo |-> Correo(i)]

SinNombre(i) == [nombre |-> NaN, correo |-> Correo(i)]
SinCorreo(i) == [nombre |-> "n", correo |-> NaN]

\* The sheets: up to MaxRows rows, at most one of them incomplete.
TablaCompleta(n) == [i \in 1..n |-> Completa(i)]

Tablas ==
    UNION { {TablaCompleta(n)}
            \cup {[TablaCompleta(n) EXCEPT ![i] = SinNombre(i)] : i \in 1..n}
            \cup {[TablaCompleta(n) EXCEPT ![i] = SinCorreo(i)] : i \in 1..n}
            : n \in 0..MaxRows }

\* An uploaded file: its name ends in .xlsx or not, its sheet has the columns
\* 'nombre' and 'correo' or not, and its data rows.
Archivos ==
    { [xlsx |-> FALSE, columnas |-> FALSE, filas |-> << >>],
      [xlsx |-> TRUE, columnas |-> FALSE, filas |-> << >>] }
    \cup { [xlsx |-> TRUE, columnas |-> TRUE, filas |-> t] : t \in Tablas }

NoArchivo == [xlsx |-> FALSE, columnas |-> FALSE, filas |-> << >>]
NoTx == [abierta |-> FALSE, lotes |-> {}, filas |-> << >>]
NoResp == [status |-> 0, error |-> "", lote_id |-> NoLote, agregados |-> 0]

VARIABLES
    lotes,          \* committed rows of table lotes (their ids)
    participantes,  \* committed rows of table participantes, in id order
    uuids,          \* number of uuid4 values issued for batches
    pc,             \* per worker: position in subir_participantes
    df,             \* per worker: the uploaded file / its DataFrame
    lote_id,        \* per worker: lote_id of the running import
    staged,         \* per worker: participantes_para_insertar
    tx,             \* per worker: the connection's open transaction
    resp,           \* per worker: the response of the import
    dpc,            \* position of enviar_correos
    dlote,          \* lote_id asked for
    dparts,         \* participantes fetched for the batch
    di,             \* participants handled by the dispatch loop
    enviados_count, \* enviados_count
    fallidos,       \* fallidos
    intentos,       \* send_message calls received by the SMTP server: <<correo, clave, ok>>
    abiertas,       \* SMTP sessions opened by the running dispatch
    cerradas,       \* SMTP sessions closed by the running dispatch
    dstatus         \* HTTP status of the dispatch (0: none yet)

dbvars == <<lotes, participantes>>
ivars == <<uuids, pc, df, lote_id, staged, tx, resp>>
dvars == <<dpc, dlote, dparts, di, enviados_count, fallidos, intentos,
           abiertas, cerradas, dstatus>>
vars == <<dbvars, ivars, dvars>>

\* ------------------------------------------------------------ the store
RECURSIVE ClavesDe(_)
ClavesDe(filas) ==
    IF filas = << >> THEN {} ELSE {Head(filas).clave} \cup ClavesDe(Tail(filas))

\* What a SELECT on worker p's connection sees of column clave: the committed
\* rows and the rows of p's own open transaction.
ClavesVisibles(p) == ClavesDe(participantes) \cup ClavesDe(tx[p].filas)

\* Some other connection holds SQLite's write lock.
BloqueadoPorOtro(p) == \E q \in Procs \ {p} : tx[q].abierta

\* The column constraints of table participantes: NOT NULL on nombre and
\* correo, UNIQUE on clave.
ViolaRestriccionSinUnique(claves, f) == f.nombre = NaN \/ f.correo = NaN

ViolaRestriccion(claves, f) ==
    f.nombre = NaN \/ f.correo = NaN \/ f.clave \in claves

\* cursor.executemany(INSERT ...): the rows are inserted in order into the
\* transaction; the first row that violates a constraint raises
\* IntegrityError and the rows before it stay in the (uncommitted) transaction.
RECURSIVE executemany(_, _, _)
executemany(claves, filas, hechas) ==
    IF filas = << >> THEN [ok |-> TRUE, filas |-> hechas]
    ELSE IF ViolaRestriccion(claves, Head(filas))
         THEN [ok |-> FALSE, filas |-> hechas]
         ELSE executemany(claves \cup {Head(filas).clave}, Tail(filas),
                          Append(hechas, Head(filas)))

\* SELECT nombre, correo, clave FROM participantes WHERE lote_id = ?
RECURSIVE SelectLote(_, _)
SelectLote(filas, l) ==
    IF filas = << >> THEN << >>
    ELSE IF Head(filas).lote_id = l
         THEN <<Head(filas)>> \o SelectLote(Tail(filas), l)
         ELSE SelectLote(Tail(filas), l)

\* ------------------------------------------------- generar_clave_unica
\* The candidates the while-loop can return: a sampled key is returned as soon
\* as the SELECT on the cursor finds no row with it.
generar_clave_unica(p) == Claves \ ClavesVisibles(p)

\* ------------------------------------------------- subir_participantes
Init ==
    /\ lotes = {}
    /\ participantes = << >>
    /\ uuids = 0
    /\ pc = [p \in Procs |-> "idle"]
    /\ df = [p \in Procs |-> NoArchivo]
    /\ lote_id = [p \in Procs |-> NoLote]
    /\ staged = [p \in Procs |-> << >>]
    /\ tx = [p \in Procs |-> NoTx]
    /\ resp = [p \in Procs |-> NoResp]
    /\ dpc = "idle"
    /\ dlote = NoLote
    /\ dparts = << >>
    /\ di = 0
    /\ enviados_count = 0
    /\ fallidos = << >>
    /\ intentos = << >>
    /\ abiertas = 0
    /\ cerradas = 0
    /\ dstatus = 0

Falla(p, status, error) ==
    /\ pc' = [pc EXCEPT ![p] = "failed"]
    /\ resp' = [resp EXCEPT ![p] = [status |-> status, error |-> error,
                                    lote_id |-> NoLote, agregados |-> 0]]

\* Files that get past the checks of the file name and of the columns.
Legibles == {a \in Archivos : a.xlsx /\ a.columnas}

\* The request arrives with a file that is refused: its name does not end in
\* .xlsx (400), or its sheet lacks a required column.  The HTTPException(400)
\* for missing columns is raised inside the try block, so the handler's
\* except clause answers 500.
RechazarArchivo(p) ==
    /\ pc[p] = "idle"
    /\ \E a \in Archivos \ Legibles :
        /\ df' = [df EXCEPT ![p] = a]
        /\ IF ~a.xlsx THEN Falla(p, 400, "no xlsx") ELSE Falla(p, 500, "columnas")
    /\ UNCHANGED <<dbvars, uuids, lote_id, staged, tx, dvars>>

\* The request arrives with a readable file: the sheet is read,
\* lote_id = uuid4(), connect, INSERT INTO lotes.  The statement opens the
\* connection's transaction and takes the write lock; while another
\* connection holds the lock the statement waits.  uuid4() is taken to return
\* an identifier never returned before: the next number.
InsertarLote(p) ==
    /\ pc[p] = "idle"
    /\ uuids < MaxImports
    /\ ~BloqueadoPorOtro(p)
    /\ \E a \in Legibles : df' = [df EXCEPT ![p] = a]
    /\ uuids' = uuids + 1
    /\ lote_id' = [lote_id EXCEPT ![p] = uuids + 1]
    /\ tx' = [tx EXCEPT ![p] = [abierta |-> TRUE, lotes |-> {uuids + 1},
                                filas |-> << >>]]
    /\ pc' = [pc EXCEPT ![p] = "bucle"]
    /\ UNCHANGED <<dbvars, staged, resp, dvars>>

\* The same, with another connection holding the write lock beyond the
\* connection's busy timeout: OperationalError, database is locked.  This
\* happens whatever the sheet holds, and the sheet is not looked at again.
InsertarLoteBloqueado(p) ==
    /\ pc[p] = "idle"
    /\ uuids < MaxImports
    /\ BloqueadoPorOtro(p)
    /\ uuids' = uuids + 1
    /\ lote_id' = [lote_id EXCEPT ![p] = uuids + 1]
    /\ Falla(p, 500, "OperationalError")
    /\ UNCHANGED <<dbvars, df, staged, tx, dvars>>

\* One iteration of `for _, row in df.iterrows()`: a key is generated and the
\* row is appended to participantes_para_insertar.
GenerarFila(p) ==
    /\ pc[p] = "bucle"
    /\ Len(staged[p]) < Len(df[p].filas)
    /\ \E k \in generar_clave_unica(p) :
        LET row == df[p].filas[Len(staged[p]) + 1] IN
        staged' = [staged EXCEPT ![p] =
                      Append(@, [lote_id |-> lote_id[p], nombre |-> row.nombre,
                                 correo |-> row.correo, clave |-> k])]
    /\ UNCHANGED <<dbvars, uuids, pc, df, lote_id, tx, resp, dvars>>

\* cursor.executemany(...) on a connection in autocommit mode: every row
\* inserted is committed at once, and so is the batch.
EjecutarInsertAutocommit(p) ==
    /\ pc[p] = "bucle"
    /\ Len(staged[p]) = Len(df[p].filas)
    /\ LET r == executemany(ClavesVisibles(p), staged[p], << >>) IN
        /\ lotes' = lotes \cup tx[p].lotes
        /\ participantes' = participantes \o r.filas
        /\ tx' = [tx EXCEPT ![p].lotes = {}]
        /\ IF r.ok
           THEN pc' = [pc EXCEPT ![p] = "commit"] /\ UNCHANGED resp
           ELSE Falla(p, 500, "IntegrityError")
    /\ UNCHANGED <<uuids, df, lote_id, staged, dvars>>

\* cursor.executemany(...) after the loop.
EjecutarInsert(p) ==
    /\ pc[p] = "bucle"
    /\ Len(staged[p]) = Len(df[p].filas)
    /\ LET r == executemany(ClavesVisibles(p), staged[p], << >>) IN
        /\ tx' = [tx EXCEPT ![p].filas = r.filas]
        /\ IF r.ok
           THEN pc' = [pc EXCEPT ![p] = "commit"] /\ UNCHANGED resp
           ELSE Falla(p, 500, "IntegrityError")
    /\ UNCHANGED <<dbvars, uuids, df, lote_id, staged, dvars>>

\* A commit that replaces the table's rows by the transaction's.
CommitReemplaza(p) ==
    /\ pc[p] = "commit"
    /\ lotes' = lotes \cup tx[p].lotes
    /\ participantes' = tx[p].filas
    /\ tx' = [tx EXCEPT ![p] = NoTx]
    /\ pc' = [pc EXCEPT ![p] = "done"]
    /\ resp' = [resp EXCEPT ![p] = [status |-> 200, error |-> "",
                                    lote_id |-> lote_id[p],
                                    agregados |-> Len(staged[p])]]
    /\ UNCHANGED <<uuids, df, lote_id, staged, dvars>>

\* conn.commit(); conn.close(); return the batch id and the count.
Commit(p) ==
    /\ pc[p] = "commit"
    /\ lotes' = lotes \cup tx[p].lotes
    /\ participantes' = participantes \o tx[p].filas
    /\ tx' = [tx EXCEPT ![p] = NoTx]
    /\ pc' = [pc EXCEPT ![p] = "done"]
    /\ resp' = [resp EXCEPT ![p] = [status |-> 200, error |-> "",
                                    lote_id |-> lote_id[p],
                                    agregados |-> Len(staged[p])]]
    /\ UNCHANGED <<uuids, df, lote_id, staged, dvars>>

\* The handler has returned or raised: its locals are dropped.  A connection
\* that was never committed nor closed is finalised, which rolls its
\* transaction back and releases the write lock.
Finalizar(p) ==
    /\ pc[p] \in {"done", "failed"}
    /\ pc' = [pc EXCEPT ![p] = "idle"]
    /\ df' = [df EXCEPT ![p] = NoArchivo]
    /\ lote_id' = [lote_id EXCEPT ![p] = NoLote]
    /\ staged' = [staged EXCEPT ![p] = << >>]
    /\ tx' = [tx EXCEPT ![p] = NoTx]
    /\ resp' = [resp EXCEPT ![p] = NoResp]
    /\ UNCHANGED <<dbvars, uuids, dvars>>

\* The steps of the handler when no other connection is in its way.
subir_participantes_solo(p) ==
    \/ RechazarArchivo(p)
    \/ InsertarLote(p)
    \/ GenerarFila(p)
    \/ EjecutarInsert(p)
    \/ Commit(p)
    \/ Finalizar(p)

subir_participantes(p) ==
    \/ subir_participantes_solo(p)
    \/ InsertarLoteBloqueado(p)

\* ------------------------------------------------------ enviar_correos
\* The columns the SELECT of enviar_correos returns.
RECURSIVE Columnas(_)
Columnas(filas) ==
    IF filas = << >> THEN << >>
    ELSE <<[nombre |-> Head(filas).nombre, correo |-> Head(filas).correo,
            clave |-> Head(filas).clave]>> \o Columnas(Tail(filas))

DFalla(status) ==
    /\ dpc' = "failed"
    /\ dstatus' = status

\* The request arrives: the batch's participants are fetched on a connection
\* that is closed at once; an empty result answers 404, an incomplete SMTP
\* configuration answers 500.
SelectParticipantesSin404 ==
    /\ dpc = "idle"
    /\ \E l \in 1..MaxImports, config \in BOOLEAN :
        /\ dlote' = l
        /\ dparts' = Columnas(SelectLote(participantes, l))
        /\ IF ~config THEN DFalla(500)
           ELSE dpc' = "connect" /\ UNCHANGED dstatus
    /\ UNCHANGED <<dbvars, ivars, di, enviados_count, fallidos, intentos,
                   abiertas, cerradas>>

SelectParticipantes ==
    /\ dpc = "idle"
    /\ \E l \in 1..MaxImports, config \in BOOLEAN :
        /\ dlote' = l
        /\ dparts' = Columnas(SelectLote(participantes, l))
        /\ IF SelectLote(participantes, l) = << >> THEN DFalla(404)
           ELSE IF ~config THEN DFalla(500)
           ELSE dpc' = "connect" /\ UNCHANGED dstatus
    /\ UNCHANGED <<dbvars, ivars, di, enviados_count, fallidos, intentos,
                   abiertas, cerradas>>

\* server = smtplib.SMTP(smtp_server, smtp_port): the session is opened, or
\* the constructor raises and there is no session.
Conectar ==
    /\ dpc = "connect"
    /\ \E ok \in BOOLEAN :
        IF ok THEN /\ abiertas' = abiertas + 1
                   /\ dpc' = "starttls"
                   /\ UNCHANGED dstatus
        ELSE DFalla(500) /\ UNCHANGED abiertas
    /\ UNCHANGED <<dbvars, ivars, dlote, dparts, di, enviados_count, fallidos,
                   intentos, cerradas>>

\* server.starttls(): on an error the outer except clause answers 500; the
\* session is left as it is.
StartTLS ==
    /\ dpc = "starttls"
    /\ \E ok \in BOOLEAN :
        IF ok THEN dpc' = "login" /\ UNCHANGED dstatus
        ELSE DFalla(500)
    /\ UNCHANGED <<dbvars, ivars, dlote, dparts, di, enviados_count, fallidos,
                   intentos, abiertas, cerradas>>

\* server.login(smtp_username, smtp_password): as for starttls.
Login ==
    /\ dpc = "login"
    /\ \E ok \in BOOLEAN :
        IF ok THEN /\ dpc' = IF dparts = << >> THEN "quit" ELSE "loop"
                   /\ UNCHANGED dstatus
        ELSE DFalla(500)
    /\ UNCHANGED <<dbvars, ivars, dlote, dparts, di, enviados_count, fallidos,
                   intentos, abiertas, cerradas>>

\* One iteration of `for participante in participantes`, with a failed send
\* leaving the loop.
SendMessageAborta ==
    /\ dpc = "loop"
    /\ \E ok \in BOOLEAN :
        LET part == dparts[di + 1] IN
        /\ intentos' = Append(intentos, [correo |-> part.correo,
                                         clave |-> part.clave, ok |-> ok])
        /\ di' = di + 1
        /\ enviados_count' = IF ok THEN enviados_count + 1 ELSE enviados_count
        /\ fallidos' = IF ok THEN fallidos ELSE Append(fallidos, part.correo)
        /\ dpc' = IF di + 1 = Len(dparts) \/ ~ok THEN "quit" ELSE "loop"
    /\ UNCHANGED <<dbvars, ivars, dlote, dparts, abiertas, cerradas, dstatus>>

\* One iteration of `for participante in participantes`: the message with the
\* participant's name and key is sent to its address; a send that raises is
\* caught and the address is appended to fallidos.
SendMessage ==
    /\ dpc = "loop"
    /\ \E ok \in BOOLEAN :
        LET part == dparts[di + 1] IN
        /\ intentos' = Append(intentos, [correo |-> part.correo,
                                         clave |-> part.clave, ok |-> ok])
        /\ di' = di + 1
        /\ enviados_count' = IF ok THEN enviados_count + 1 ELSE enviados_count
        /\ fallidos' = IF ok THEN fallidos ELSE Append(fallidos, part.correo)
        /\ dpc' = IF di + 1 = Len(dparts) THEN "quit" ELSE "loop"
    /\ UNCHANGED <<dbvars, ivars, dlote, dparts, abiertas, cerradas, dstatus>>

\* server.quit() after the loop, then the report.  quit closes the socket
\* also when the QUIT command itself fails (the outer except then answers 500).
Quit ==
    /\ dpc = "quit"
    /\ cerradas' = cerradas + 1
    /\ \E ok \in BOOLEAN :
        IF ok THEN dpc' = "done" /\ dstatus' = 200
        ELSE DFalla(500)
    /\ UNCHANGED <<dbvars, ivars, dlote, dparts, di, enviados_count, fallidos,
                   intentos, abiertas>>

\* The handler has returned or raised: its locals are dropped.
FinEnvio ==
    /\ dpc \in {"done", "failed"}
    /\ dpc' = "idle"
    /\ dlote' = NoLote
    /\ dparts' = << >>
    /\ di' = 0
    /\ enviados_count' = 0
    /\ fallidos' = << >>
    /\ intentos' = << >>
    /\ abiertas' = 0
    /\ cerradas' = 0
    /\ dstatus' = 0
    /\ UNCHANGED <<dbvars, ivars>>

enviar_correos ==
    \/ SelectParticipantes
    \/ Conectar
    \/ StartTLS
    \/ Login
    \/ SendMessage
    \/ Quit
    \/ FinEnvio

\* -------------------------------------------------------- specifications
\* Two workers importing concurrently.
NextImport == \E p \in Procs : subir_participantes(p)

SpecImport == Init /\ [][NextImport]_vars

\* One worker importing (no other connection writes) while dispatches run.
NextDispatch == subir_participantes_solo(1) \/ enviar_correos

SpecDispatch == Init /\ [][NextDispatch]_vars

\* Everything.
Next == NextImport \/ enviar_correos

Spec == Init /\ [][Next]_vars

\* ---------------------------------------------------------------- claims
Indices == 1..Len(participantes)

\* A sheet with both columns whose rows all have a name and an address.
BienFormada(a) ==
    /\ a.xlsx /\ a.columnas
    /\ \A i \in 1..Len(a.filas) : a.filas[i].nombre # NaN /\ a.filas[i].correo # NaN

ClavesDistintas(filas) ==
    \A i, j \in 1..Len(filas) : i # j => filas[i].clave # filas[j].clave

RECURSIVE CorreosFallidos(_)
CorreosFallidos(log) ==
    IF log = << >> THEN << >>
    ELSE (IF Head(log).ok THEN << >> ELSE <<Head(log).correo>>)
         \o CorreosFallidos(Tail(log))

RECURSIVE Enviados(_)
Enviados(log) ==
    IF log = << >> THEN 0
    ELSE (IF Head(log).ok THEN 1 ELSE 0) + Enviados(Tail(log))

\* C1: in every reachable state of the store, whatever the interleaving of the
\* imports, no two persisted participants have the same clave, across all
\* batches.
C1_ClavesUnicas == ClavesDistintas(participantes)

\* C1's case: participants of two different batches are persisted.
C1_DosLotes ==
    \E i, j \in Indices : participantes[i].lote_id # participantes[j].lote_id

\* C2: within one import, the keys the key generator has returned so far are
\* pairwise distinct and distinct from every key in the store.
C2_ClavesGeneradasDistintas ==
    \A p \in Procs :
        pc[p] = "bucle" =>
            /\ ClavesDistintas(staged[p])
            /\ ClavesDe(staged[p]) \cap ClavesDe(participantes) = {}

\* C3: an import that has not committed, and so every import that has failed,
\* has no batch and no participant in the store; and the store changes only by
\* an import committing its batch with all the rows of its sheet, so what a
\* failed import wrote never becomes visible.
C3_NadaVisible ==
    \A p \in Procs :
        (pc[p] # "done" /\ lote_id[p] # NoLote) =>
            /\ lote_id[p] \notin lotes
            /\ \A i \in Indices : participantes[i].lote_id # lote_id[p]

C3_SoloCommit ==
    dbvars' # dbvars =>
        \E p \in Procs :
            /\ pc[p] = "commit" /\ pc'[p] = "done"
            /\ Len(staged[p]) = Len(df[p].filas)
            /\ lotes' = lotes \cup {lote_id[p]}
            /\ participantes' = participantes \o staged[p]

C3_TodoONada == []C3_NadaVisible /\ [][C3_SoloCommit]_vars

\* C3's case: an import failed at a row after its first one, having inserted
\* its batch and the rows before it in its transaction, while another batch is
\* in the store.
C3_FallaEnFila ==
    \E p \in Procs :
        /\ pc[p] = "failed" /\ resp[p].error = "IntegrityError"
        /\ tx[p].filas # << >>
        /\ \E i \in 1..Len(df[p].filas) : df[p].filas[i].nombre = NaN
        /\ participantes # << >>

\* C4: an import of a well-formed sheet of N >= 1 rows does not fail, and when
\* it has returned it has answered its batch id and N, its batch is in the
\* store and exactly N participants reference it.
C4_BienFormadaTieneExito ==
    \A p \in Procs :
        (BienFormada(df[p]) /\ Len(df[p].filas) >= 1) =>
            /\ pc[p] # "failed"
            /\ pc[p] = "done" =>
                /\ resp[p] = [status |-> 200, error |-> "", lote_id |-> lote_id[p],
                              agregados |-> Len(df[p].filas)]
                /\ lote_id[p] \in lotes
                /\ Len(SelectLote(participantes, lote_id[p])) = Len(df[p].filas)

\* C5: an import of a sheet without data rows is rejected, and no batch without
\* participants is ever in the store.
C5_SinLoteVacio ==
    /\ \A l \in lotes : SelectLote(participantes, l) # << >>
    /\ \A p \in Procs : pc[p] = "done" => Len(df[p].filas) >= 1

\* C6: once the session of a dispatch is established, the send_message calls
\* made so far are those for the first di participants fetched, one each and in
\* order; enviados_count counts the calls that succeeded, fallidos holds the
\* addresses of those that failed, in order, so enviados_count + Len(fallidos)
\* = di; the loop ends only with every participant of the batch handled, and
\* the participants fetched are those of the batch in the store, in its order.
C6_EnvioCompleto ==
    (dpc \in {"loop", "quit", "done"} \/ (dpc = "failed" /\ cerradas > 0)) =>
        /\ Len(intentos) = di /\ di <= Len(dparts)
        /\ \A i \in 1..di : /\ intentos[i].correo = dparts[i].correo
                            /\ intentos[i].clave = dparts[i].clave
        /\ enviados_count = Enviados(intentos)
        /\ fallidos = CorreosFallidos(intentos)
        /\ enviados_count + Len(fallidos) = di
        /\ dpc # "loop" => di = Len(dparts)
        /\ dparts = Columnas(SelectLote(participantes, dlote))

\* C6's case: a dispatch to 3 participants whose 2nd send failed has returned
\* its report: 2 sent, the 2nd address failed.
C6_FallaElSegundo ==
    /\ dpc = "done" /\ dstatus = 200
    /\ Len(dparts) = 3 /\ Len(intentos) = 3
    /\ intentos[1].ok /\ ~intentos[2].ok /\ intentos[3].ok
    /\ enviados_count = 2
    /\ fallidos = <<dparts[2].correo>>

\* C7: when a dispatch returns, by its report or by an error, every SMTP
\* session it opened has been closed, exactly once.
C7_SesionCerrada ==
    dpc \in {"done", "failed"} => cerradas = abiertas

\* C8: a dispatch that finds no participant for its batch id answers 404,
\* having opened no session and sent nothing (and it answers 404 in that case
\* only); no step of a dispatch changes the store.
C8_Sin404NiSesion ==
    /\ (dpc # "idle" /\ dparts = << >>) =>
            /\ dpc = "failed" /\ dstatus = 404
            /\ abiertas = 0 /\ cerradas = 0
            /\ intentos = << >> /\ enviados_count = 0 /\ fallidos = << >>
    /\ dstatus = 404 => dparts = << >>

C8_EnvioNoEscribe == dvars' # dvars => dbvars' = dbvars

C8_LoteDesconocido == []C8_Sin404NiSesion /\ [][C8_EnvioNoEscribe]_vars

\* C8's case: a dispatch has answered 404 for a batch id while the store holds
\* participants of another batch.
C8_Respondio404 ==
    /\ dpc = "failed" /\ dstatus = 404
    /\ participantes # << >>

\* C9: an import never ends in a fatal error because of another import or of a
\* key collision: a clave refused by the UNIQUE constraint is generated again,
\* and no import is failed by the store being held by another one.
C9_ColisionNoFatal ==
    \A p \in Procs :
        pc[p] = "failed" =>
            /\ resp[p].error # "OperationalError"
            /\ resp[p].error = "IntegrityError" =>
                  \E i \in 1..Len(staged[p]) :
                      staged[p][i].nombre = NaN \/ staged[p][i].correo = NaN

\* C10: no step removes or changes a persisted participant or batch; every
\* participant references a batch of the store; the participants of a batch
\* are, once committed, the rows the import staged with the keys it generated;
\* and the participants a dispatch lists are those of the store.
C10_SoloAgrega ==
    /\ lotes \subseteq lotes'
    /\ Len(participantes') >= Len(participantes)
    /\ SubSeq(participantes', 1, Len(participantes)) = participantes

C10_Referencias ==
    /\ \A i \in Indices : participantes[i].lote_id \in lotes
    /\ \A p \in Procs :
          pc[p] = "done" => SelectLote(participantes, lote_id[p]) = staged[p]
    /\ dparts # << >> => dparts = Columnas(SelectLote(participantes, dlote))

C10_Inmutables == []C10_Referencias /\ [][C10_SoloAgrega]_vars

\* C10's case: a dispatch has listed and reported the first batch while a
\* batch imported later is in the store.
C10_EnvioTrasOtroImport ==
    /\ dpc = "done"
    /\ dlote = 1
    /\ \E i, j \in Indices : i < j /\ participantes[i].lote_id = 1
                                   /\ participantes[j].lote_id = 2
====
